---- MODULE Spec2Model ----
(***************************************************************************)
(* A model of the navigation shell of personal-suite-vue-app:              *)
(*   - the drawer: useDrawerRoutes (filter + sort of the route list) and   *)
(*     the DrawerContent / DrawerItem / DrawerSubItem templates;           *)
(*   - the TabContainer component;                                         *)
(*   - YouTubeView's use of the sticky bar store and the shared active tab.*)
(*                                                                         *)
(* An optional JavaScript value (a property that may be undefined) is a    *)
(* sequence of length 0 (absent) or 1 (present).                           *)
(***************************************************************************)
EXTENDS Integers, Sequences, FiniteSets, TLC

VARIABLES
    routes,          \* the exported routes array (constants/routes.ts)
    messages,        \* the active translation table of vue-i18n: key -> text
    drawerPhase,     \* "setup" | "computed" | "rendered" (DrawerContent)
    drawerRoutes,    \* value of the computed drawerRoutes
    drawer,          \* the rendered v-list: one entry per DrawerItem
    tabs,            \* the tabs prop given to TabContainer
    parentModel,     \* the ref a parent binds with v-model to TabContainer
    tabContainer,    \* the mounted TabContainer: its props and its activeTab ref
    emits,           \* update:modelValue events emitted by the last step
    views,           \* lifecycle position of each YouTubeView instance
    sharedTab,       \* the activeTab ref shared through useActiveTab()
    sticky,          \* state of the sticky bar store
    claims,          \* history: the props of the add() calls since the last clear()
    selectedChannel, \* ChannelsTab: the channel bound to ChannelDialog with v-model
    formMode,        \* ChannelsTab: 'View' | 'Create' | 'Edit', the dialog's mode prop
    showSnackbar,    \* ChannelsTab: v-model of SnackbarGeneral
    snackbarMessage, \* ChannelsTab: the message key shown by the snackbar
    showConfirm,     \* ChannelsTab: v-model of ConfirmDialog
    confirmDialogMessage,   \* ChannelsTab: the question of the confirm dialog
    channelPendingDeletion, \* ChannelsTab: the channel a confirmed delete removes
    console,         \* the console.log lines written by the last step
    internalDialog,  \* ChannelDialog: v-model of its v-dialog
    loading,         \* ChannelDialog: the loading flag of the save button
    form,            \* ChannelDialog: the local copy the fields edit
    saved,           \* the responses emitted with 'saved' by the last step
    rejected,        \* whether the last step was an onSubmit that returned at its check
    requests,        \* store calls awaited by a saveChannel or a deleteChannel
    storeCalls,      \* the store calls issued by the last step
    heap,            \* normalizeEmptyFields: the objects, by reference
    normArg,         \* normalizeEmptyFields: the reference passed as obj
    normResult       \* normalizeEmptyFields: the reference returned, 0 before the call

drawerVars == <<routes, messages, drawerPhase, drawerRoutes, drawer>>

tabVars == <<tabs, parentModel, tabContainer, emits>>

stickyVars == <<views, sharedTab, sticky, claims>>

pageVars ==
    <<selectedChannel, formMode, showSnackbar, snackbarMessage, showConfirm,
      confirmDialogMessage, channelPendingDeletion, console>>

dialogVars == <<internalDialog, loading, form, saved, rejected>>

storeVars == <<requests, storeCalls>>

channelVars == <<pageVars, dialogVars, storeVars>>

normVars == <<heap, normArg, normResult>>

vars == <<drawerVars, tabVars, stickyVars, channelVars, normVars>>

----------------------------------------------------------------------------
(* Optional values *)

None == <<>>

Some(v) == <<v>>

----------------------------------------------------------------------------
(* Bounds of the model *)

\* longest route list the model draws
MaxRoutes == 3

\* longest tabs list the model draws
MaxTabs == 2

\* number of YouTubeView instances that can be alive at a time
MaxViews == 2

MaxRequests == 2

----------------------------------------------------------------------------
(* Route records: RouteRecordRaw with the fields the drawer reads *)

Route(name, path, meta, children) ==
    [name |-> name, path |-> path, meta |-> meta, children |-> children]

Meta(showInDrawer, order, i18nKey, icon) ==
    [showInDrawer |-> showInDrawer, order |-> order, i18nKey |-> i18nKey, icon |-> icon]

\* r.meta?.f : undefined when meta is undefined, else meta.f
MetaField(r, f) == IF r.meta = None THEN None ELSE r.meta[1][f]

----------------------------------------------------------------------------
(* useDrawerRoutes *)

\* the filter written as a truthiness test: r.meta?.showInDrawer && ...
DrawerFilterTruthy(r) ==
    /\ MetaField(r, "showInDrawer") = Some(TRUE)
    /\ r.name # Some("settings")

\* the filter callback: r.meta?.showInDrawer !== false && r.name !== 'settings'
DrawerFilter(r) ==
    /\ MetaField(r, "showInDrawer") # Some(FALSE)
    /\ r.name # Some("settings")

\* a.meta?.order ?? 0
OrderOf(r) ==
    LET o == MetaField(r, "order") IN IF o = None THEN 0 ELSE o[1]

\* the sort callback with its operands swapped
DrawerCompareDescending(a, b) == OrderOf(b) - OrderOf(a)

\* the sort callback: (a, b) => (a.meta?.order ?? 0) - (b.meta?.order ?? 0)
DrawerCompare(a, b) == OrderOf(a) - OrderOf(b)

\* insertion in front of the elements that compare equal: an unstable sort
RECURSIVE InsertSortedUnstable(_, _)
InsertSortedUnstable(s, x) ==
    IF s = <<>> THEN <<x>>
    ELSE IF DrawerCompare(s[Len(s)], x) < 0 THEN Append(s, x)
    ELSE Append(InsertSortedUnstable(SubSeq(s, 1, Len(s) - 1), x), s[Len(s)])

\* insertion of x into a sorted sequence, behind every element that does not
\* compare greater than x
RECURSIVE InsertSorted(_, _)
InsertSorted(s, x) ==
    IF s = <<>> THEN <<x>>
    ELSE IF DrawerCompare(s[Len(s)], x) <= 0 THEN Append(s, x)
    ELSE Append(InsertSorted(SubSeq(s, 1, Len(s) - 1), x), s[Len(s)])

\* Array.prototype.sort with the sort callback: a stable sort (ECMAScript 2019)
RECURSIVE SortRoutes(_)
SortRoutes(s) ==
    IF s = <<>> THEN <<>>
    ELSE InsertSorted(SortRoutes(SubSeq(s, 1, Len(s) - 1)), s[Len(s)])

\* the value of the computed: allRoutes.filter(...).sort(...)
DrawerRoutes(allRoutes) == SortRoutes(SelectSeq(allRoutes, DrawerFilter))

\* the exported array after allRoutes.sort(...) without the filter in front:
\* sort() orders the array it is called on
RoutesAfterSortInPlace(allRoutes) == SortRoutes(allRoutes)

\* the exported array after an evaluation: filter() returns a new array, and
\* sort() orders that array in place, so the exported one is as it was
RoutesAfterProjection(allRoutes) == allRoutes

----------------------------------------------------------------------------
(* vue-i18n and the drawer templates *)

\* t(key): the message of the key, the key itself when there is none
t(key) == IF key \in DOMAIN messages THEN messages[key] ELSE key

\* String(route.name)
JsString(name) == IF name = None THEN "undefined" ELSE name[1]

\* the title key taken from the name alone
TitleKeyNameOnly(route) == JsString(route.name)

\* route.meta?.i18nKey ?? String(route.name) ?? ''
\* (String() never yields null or undefined, so '' is never taken)
TitleKey(route) ==
    LET k == MetaField(route, "i18nKey") IN
    IF k # None THEN k[1] ELSE JsString(route.name)

\* :title of a v-list-item of the drawer
Title(route) == t(TitleKey(route))

\* :to of DrawerSubItem: parentPath ? `${parentPath}/${route.path}` : route.path
SubItemTo(route, parentPath) ==
    IF parentPath # "" THEN parentPath \o "/" \o route.path ELSE route.path

\* DrawerSubItem.vue: one v-list-item
DrawerSubItem(route, parentPath) ==
    [ route |-> route,
      title |-> Title(route),
      to    |-> SubItemTo(route, parentPath),
      icon  |-> MetaField(route, "icon") ]

\* v-if="route.children"
HasChildrenArray(route) == route.children # None

\* v-if="route.children?.length"
HasChildren(route) == route.children # None /\ Len(route.children[1]) > 0

\* a group that goes one level further: the children of its last child follow
\* the children as sub-items of their own
DrawerItemNested(route) ==
    IF HasChildren(route)
    THEN LET kids == route.children[1]
             last == kids[Len(kids)]
             shown == IF HasChildren(last) THEN kids \o last.children[1] ELSE kids
         IN [ kind  |-> "group",
              route |-> route,
              title |-> Title(route),
              to    |-> None,
              icon  |-> MetaField(route, "icon"),
              items |-> [i \in 1..Len(shown) |-> DrawerSubItem(shown[i], route.path)] ]
    ELSE [ kind  |-> "item",
           route |-> route,
           title |-> Title(route),
           to    |-> Some(route.path),
           icon  |-> MetaField(route, "icon"),
           items |-> <<>> ]

\* DrawerItem.vue: a v-list-group with one DrawerSubItem per child, or a single
\* v-list-item
DrawerItem(route) ==
    IF HasChildren(route)
    THEN [ kind  |-> "group",
           route |-> route,
           title |-> Title(route),
           to    |-> None,
           icon  |-> MetaField(route, "icon"),
           items |-> [i \in 1..Len(route.children[1]) |->
                         DrawerSubItem(route.children[1][i], route.path)] ]
    ELSE [ kind  |-> "item",
           route |-> route,
           title |-> Title(route),
           to    |-> Some(route.path),
           icon  |-> MetaField(route, "icon"),
           items |-> <<>> ]

\* DrawerContent: <DrawerItem v-for="route in drawerRoutes">
DrawerContent(projected) == [i \in 1..Len(projected) |-> DrawerItem(projected[i])]

----------------------------------------------------------------------------
(* The route lists and translation tables the model draws *)

\* constants/routes.ts and modules/media-tracker/constants/routes.ts
AppRoutes ==
    << Route(Some("home"), "/",
             Some(Meta(None, None, Some("common.start"), Some("mdi-home"))), None),
       Route(Some("settings"), "/settings",
             Some(Meta(None, None, Some("common.settings"), Some("mdi-cog"))), None),
       Route(Some("media-tracker"), "/media-tracker",
             Some(Meta(None, None, Some("mediaTracker.mediaTracker"),
                       Some("mdi-play-circle"))),
             Some(<< Route(Some("media-tracker-media"), "media",
                           Some(Meta(None, None, Some("mediaTracker.media"),
                                     Some("mdi-movie-open"))), None),
                     Route(Some("media-tracker-youtube"), "youtube",
                           Some(Meta(None, None, Some("mediaTracker.youTube.youTube"),
                                     Some("mdi-youtube"))), None) >>)) >>

\* a route list with explicit order values and one group
ScenarioRoutes ==
    << Route(Some("home"), "/", Some(Meta(None, Some(1), None, None)), None),
       Route(Some("settings"), "/settings", Some(Meta(None, Some(99), None, None)), None),
       Route(Some("media"), "/media", Some(Meta(None, Some(0), None, None)),
             Some(<< Route(Some("videos"), "videos", None, None) >>)) >>

\* name and path of the top-level routes drawn; paths are the v-for keys and
\* are unique in a list
TopIdents ==
    { <<Some("home"), "/">>, <<Some("settings"), "/settings">>,
      <<Some("media"), "/media">>, <<None, "/about">> }

\* metas that vary what the filter and the sort read
SortMetas ==
    {None}
    \cup { Some(Meta(s, o, None, None)) : s \in {None, Some(TRUE), Some(FALSE)},
                                          o \in {None, Some(0), Some(1)} }

SortRouteSet ==
    { Route(id[1], id[2], m, None) : id \in TopIdents, m \in SortMetas }

\* child routes: plain, translated, hidden, nameless, with children of its own
ChildVideos == Route(Some("videos"), "videos", None, None)

ChildMedia ==
    Route(Some("media-tracker-media"), "media",
          Some(Meta(None, None, Some("mediaTracker.media"), Some("mdi-movie-open"))), None)

ChildHidden ==
    Route(Some("drafts"), "drafts", Some(Meta(Some(FALSE), None, None, None)), None)

ChildNameless == Route(None, "misc", None, None)

ChildNested ==
    Route(Some("youtube"), "youtube", None,
          Some(<< Route(Some("channels"), "channels", None, None) >>))

ChildLists ==
    { None, Some(<<>>), Some(<<ChildVideos>>), Some(<<ChildMedia, ChildHidden>>),
      Some(<<ChildNameless, ChildNested>>) }

\* metas that vary what the templates read
LabelMetas ==
    { None, Some(Meta(None, None, Some("mediaTracker.mediaTracker"),
                      Some("mdi-play-circle"))) }

RenderIdents == { <<Some("media"), "/media">>, <<None, "">> }

RenderRouteSet ==
    { Route(id[1], id[2], m, c) : id \in RenderIdents, m \in LabelMetas, c \in ChildLists }

\* the lists over a set of routes, of at most MaxRoutes routes with distinct paths
ListsOver(S) ==
    UNION { { l \in [1..n -> S] :
                \A i, j \in 1..n : i # j => l[i].path # l[j].path } : n \in 0..MaxRoutes }

SortLists == ListsOver(SortRouteSet)

RenderLists == ListsOver(RenderRouteSet) \cup {AppRoutes, ScenarioRoutes}

\* translation tables: none loaded, the keys of the routes, and one more in
\* which a route name is a message key too
NoMessages == [k \in {} |-> ""]

RouteMessages ==
    [k \in {"common.start", "mediaTracker.mediaTracker", "mediaTracker.media"} |->
        CASE k = "common.start" -> "Inicio"
          [] k = "mediaTracker.mediaTracker" -> "Seguimiento"
          [] OTHER -> "Multimedia"]

NameMessages ==
    [k \in DOMAIN RouteMessages \cup {"media"} |->
        IF k = "media" THEN "Medios" ELSE RouteMessages[k]]

Tables == {NoMessages, RouteMessages, NameMessages}

----------------------------------------------------------------------------
(* TabContainer (the second script block of components/pages/SettingsView.vue) *)

Tab(tabId, label) == [tabId |-> tabId, label |-> label]

\* modules/media-tracker/components/pages/youtube/tabs.ts
YouTubeTabs ==
    << Tab("channels", "mediaTracker.youTube.channels.channels"),
       Tab("videos", "mediaTracker.youTube.videos.videos") >>

\* JavaScript truthiness of an optional string
Truthy(v) == v # None /\ v[1] # ""

\* the initial value with ?? in place of ||: an empty modelValue is kept
TabContainerSetupNullish(tabsProp, modelValue) ==
    IF modelValue # None THEN modelValue[1]
    ELSE IF tabsProp # <<>> THEN tabsProp[1].tabId
    ELSE ""

\* ref(props.modelValue || props.tabs[0]?.tabId || '')
TabContainerSetup(tabsProp, modelValue) ==
    IF Truthy(modelValue) THEN modelValue[1]
    ELSE IF tabsProp # <<>> /\ tabsProp[1].tabId # "" THEN tabsProp[1].tabId
    ELSE ""

\* the watcher without its if (val): every present value is selected
OnModelValueChangeUnguarded(activeTab, val) == IF val # None THEN val[1] ELSE activeTab

\* watch(() => props.modelValue, val => { if (val) activeTab.value = val })
OnModelValueChange(activeTab, val) == IF Truthy(val) THEN val[1] ELSE activeTab

\* watch(activeTab, val => emit('update:modelValue', val)): runs when the ref
\* holds another value than before
OnActiveTabChange(before, after) == IF after # before THEN <<after>> ELSE <<>>

\* the listeners of update:modelValue: the v-model of a parent template, or the
\* closure of a YouTubeView instance
VModel == <<"v-model">>

ViewHandler(i) == <<"YouTubeView", i>>

\* a TabContainer instance
TabContainer(tabsProp, modelValue, handler, activeTab) ==
    [ tabs |-> tabsProp, modelValue |-> modelValue, onUpdate |-> handler,
      activeTab |-> activeTab ]

\* creation of the component with the given props
NewTabContainer(tabsProp, modelValue, handler) ==
    TabContainer(tabsProp, modelValue, handler, TabContainerSetup(tabsProp, modelValue))

\* the tabs lists and bound values the model draws
TabIds == {"channels", "videos", "playlists"}

TabLists ==
    UNION { { [i \in 1..n |-> Tab(l[i], l[i])] :
                l \in { f \in [1..n -> TabIds] : \A i, j \in 1..n : i # j => f[i] # f[j] } } :
            n \in 0..MaxTabs }

ModelValues == { None, Some(""), Some("channels"), Some("videos"), Some("unknown") }

----------------------------------------------------------------------------
(* JavaScript values: a pair of the type and the text of the value, so that  *)
(* '' and null and 0 are three values                                        *)

Str(s) == <<"string", s>>

Null == <<"null", "null">>

Zero == <<"number", "0">>

False == <<"boolean", "false">>

\* !!v
JsTruthy(v) == v \notin {Str(""), Null, Zero, False}

----------------------------------------------------------------------------
(* normalizeEmptyFields (router/index.ts). The heap is the sequence of the   *)
(* objects allocated so far, a reference is an index into it.                *)

\* the test written !result[key]: every falsy property becomes null
NormalizeEmptyFieldsFalsy(h, obj) ==
    LET result == Len(h) + 1
        copied == Append(h, h[obj])
        written == [copied EXCEPT ![result] =
                       [key \in DOMAIN @ |-> IF ~JsTruthy(@[key]) THEN Null ELSE @[key]]]
    IN [heap |-> written, result |-> result]

\* const result = { ...obj }; Object.keys(result).forEach(key => { if
\* (result[key] === "") result[key] = null }); return result
NormalizeEmptyFields(h, obj) ==
    LET result == Len(h) + 1
        copied == Append(h, h[obj])
        written == [copied EXCEPT ![result] =
                       [key \in DOMAIN @ |-> IF @[key] = Str("") THEN Null ELSE @[key]]]
    IN [heap |-> written, result |-> result]

\* the object a call returns for an object that is alone on the heap
Normalized(object) ==
    LET call == NormalizeEmptyFields(<<object>>, 1) IN call.heap[call.result]

\* the objects the model passes to normalizeEmptyFields
NormalizeKeys == {"id", "name", "description"}

NormalizeValues == {Str(""), Str("John"), Null, Zero, False}

NormalizeObjects == UNION { [keys -> NormalizeValues] : keys \in SUBSET NormalizeKeys }

NormalizeIdle ==
    /\ heap = <<>>
    /\ normArg = 0
    /\ normResult = 0

----------------------------------------------------------------------------
(* ChannelsTab and ChannelDialog                                             *)

\* types/forms.ts
FormModes == {"View", "Create", "Edit"}

\* unnamed/part_003: ApiSuccessStatusCodes
SUCCESS == 200

CREATED == 201

DELETED == 204

\* the fields of a YTChannel
Fields == {"id", "name", "description", "url", "createdAt"}

\* a YTChannel object; ref is the identity of the object, which === compares
Channel(ref, id, name, description, url, createdAt) ==
    [ ref |-> ref, id |-> id, name |-> name, description |-> description,
      url |-> url, createdAt |-> createdAt ]

\* the rows of the channels table
ChannelRows ==
    { Channel("row1", Str("UC1"), Str("Alpha"), Null, Str(""), Str("2024-01-01")) }

\* the object literal of onCreate, a new object on every call
NewChannel(ref) == Channel(ref, Str(""), Str(""), Str(""), Str(""), Str("now"))

FreshRef(current) ==
    IF current # None /\ current[1].ref = "new1" THEN "new2" ELSE "new1"

\* Object.is on two values of the selectedChannel ref
SameObject(a, b) ==
    \/ a = None /\ b = None
    \/ a # None /\ b # None /\ a[1].ref = b[1].ref

\* ChannelDialog: const form = ref({ id: "", name: "", ... })
EmptyForm == [f \in Fields |-> Str("")]

\* { ...val }
FormOf(channel) == [f \in Fields |-> channel[f]]

\* validity by the id rule alone
IsFormValidIdOnly(f) == JsTruthy(f.id)

\* ChannelDialog: isFormValid, with idRules and nameRules
IsFormValid(f) == JsTruthy(f.id) /\ JsTruthy(f.name)

\* ChannelDialog: isReadonly
IsReadonly(mode) == mode = "View"

\* ChannelDialog: watch(() => props.modelValue, val => ...), which runs when
\* the prop holds another object than before
ModelValueWatch(before, val, currentForm, currentDialog) ==
    IF SameObject(before, val)
    THEN [form |-> currentForm, internalDialog |-> currentDialog]
    ELSE IF val # None
         THEN [form |-> FormOf(val[1]), internalDialog |-> TRUE]
         ELSE [form |-> currentForm, internalDialog |-> FALSE]

\* what the user types: a field and the value it is given
FieldInputs ==
    { <<"id", Str("")>>, <<"id", Str("UC1")>>,
      <<"name", Str("")>>, <<"name", Str("Alpha")>> }

\* the status of a store response: a code, or null when no response came
Statuses == {Some(SUCCESS), Some(CREATED), Some(DELETED), Some(500), None}

SuccessStatuses == {Some(SUCCESS), Some(CREATED), Some(DELETED)}

\* a call of the channel store that has not resolved yet
Request(op, arg) == [op |-> op, arg |-> arg]

\* the ApiResponse a store call resolves with: the entity on success, null
\* data otherwise; remove carries no entity
StoreResponse(request, status) ==
    [ status |-> status,
      data |-> IF status \in SuccessStatuses /\ request.op # "remove"
               THEN Some(request.arg) ELSE None ]

\* saveChannel up to its await: the store call it issues; the record keeps
\* the mode prop the call was issued under
SaveChannelCall(mode, currentForm) ==
    IF mode = "Edit"
    THEN [op |-> "update", arg |-> Normalized(currentForm), mode |-> mode]
    ELSE [op |-> "create", arg |-> Normalized(currentForm), mode |-> mode]

\* ChannelsTab: onSaved
OnSaved(mode, response, shown, message) ==
    IF mode = "Create"
    THEN IF response.status = Some(CREATED)
         THEN [ showSnackbar |-> TRUE, snackbarMessage |-> "channels.feedback.new",
                console |-> <<>> ]
         ELSE [ showSnackbar |-> shown, snackbarMessage |-> message,
                console |-> << <<"Error creating channel, code: ", response.status>> >> ]
    ELSE IF response.status = Some(SUCCESS)
         THEN [ showSnackbar |-> TRUE, snackbarMessage |-> "channels.feedback.edit",
                console |-> <<>> ]
         ELSE [ showSnackbar |-> shown, snackbarMessage |-> message,
                console |-> << <<"Error editing channel, code: ", response.status>> >> ]

\* the delete feedback given for every success code
OnRemovedAnySuccess(response, shown, message) ==
    IF response.status \in SuccessStatuses
    THEN [ showSnackbar |-> TRUE, snackbarMessage |-> "channels.feedback.delete",
           console |-> <<>> ]
    ELSE [ showSnackbar |-> shown, snackbarMessage |-> message,
           console |-> << <<"Error deleting channel, code: ", response.status>> >> ]

\* deleteChannel after its await, up to the closing of the dialog
OnRemoved(response, shown, message) ==
    IF response.status = Some(DELETED)
    THEN [ showSnackbar |-> TRUE, snackbarMessage |-> "channels.feedback.delete",
           console |-> <<>> ]
    ELSE [ showSnackbar |-> shown, snackbarMessage |-> message,
           console |-> << <<"Error deleting channel, code: ", response.status>> >> ]

\* t(deleteDialog.message, {channel: channel.name})
DeleteQuestion(channel) == <<"channels.dialogs.deleteDialog.message", channel.name>>

RemoveAt(s, k) == [i \in 1..(Len(s) - 1) |-> IF i < k THEN s[i] ELSE s[i + 1]]

\* ChannelsTab and ChannelDialog as their setup leaves them
ChannelIdle ==
    /\ selectedChannel = None
    /\ formMode = "View"
    /\ showSnackbar = FALSE
    /\ snackbarMessage = ""
    /\ showConfirm = FALSE
    /\ confirmDialogMessage = <<>>
    /\ channelPendingDeletion = None
    /\ console = <<>>
    /\ internalDialog = FALSE
    /\ loading = FALSE
    /\ form = EmptyForm
    /\ saved = <<>>
    /\ rejected = FALSE
    /\ requests = <<>>
    /\ storeCalls = <<>>

TabsIdle ==
    /\ tabs = <<>>
    /\ parentModel = None
    /\ tabContainer = None
    /\ emits = <<>>

StickyIdle ==
    /\ views = [i \in 1..MaxViews |-> "none"]
    /\ sharedTab = ""
    /\ sticky = [component |-> None, props |-> None, fullBleed |-> FALSE]
    /\ claims = <<>>

DrawerIdle ==
    /\ routes = <<>>
    /\ messages = NoMessages
    /\ drawerPhase = "setup"
    /\ drawerRoutes = <<>>
    /\ drawer = <<>>

TabsInit ==
    /\ tabs \in TabLists
    /\ parentModel \in ModelValues
    /\ tabContainer = None
    /\ emits = <<>>
    /\ DrawerIdle
    /\ StickyIdle
    /\ ChannelIdle
    /\ NormalizeIdle

\* <TabContainer v-model="currentTab" :tabs="tabs"> is mounted
CreateTabContainer ==
    /\ tabContainer = None
    /\ tabContainer' = Some(NewTabContainer(tabs, parentModel, VModel))
    /\ emits' = <<>>
    /\ UNCHANGED <<tabs, parentModel, drawerVars, stickyVars, channelVars, normVars>>

\* the user selects tab x in v-tabs (v-model="activeTab"); the activeTab watcher
\* emits, v-model stores the value in the parent and hands it back as the prop
ClickTab(x) ==
    /\ tabContainer # None
    /\ tabContainer[1].onUpdate = VModel
    /\ LET tc == tabContainer[1]
           out == OnActiveTabChange(tc.activeTab, x)
           model == IF out = <<>> THEN parentModel ELSE Some(out[1])
       IN /\ emits' = out
          /\ parentModel' = model
          /\ tabContainer' =
                Some(TabContainer(tc.tabs, model, tc.onUpdate, OnModelValueChange(x, model)))
    /\ UNCHANGED <<tabs, drawerVars, stickyVars, channelVars, normVars>>

\* the parent writes v to the ref it bound; the modelValue watcher runs when
\* the prop changed, and the activeTab watcher after it
ParentSetsModel(v) ==
    /\ parentModel # v
    /\ parentModel' = v
    /\ IF tabContainer = None
       THEN /\ emits' = <<>>
            /\ UNCHANGED tabContainer
       ELSE LET tc == tabContainer[1]
                selected == OnModelValueChange(tc.activeTab, v)
            IN /\ emits' = OnActiveTabChange(tc.activeTab, selected)
               /\ tabContainer' = Some(TabContainer(tc.tabs, v, tc.onUpdate, selected))
    /\ UNCHANGED <<tabs, drawerVars, stickyVars, channelVars, normVars>>

\* the parent is unmounted
DestroyTabContainer ==
    /\ tabContainer # None
    /\ tabContainer[1].onUpdate = VModel
    /\ tabContainer' = None
    /\ emits' = <<>>
    /\ UNCHANGED <<tabs, parentModel, drawerVars, stickyVars, channelVars, normVars>>

TabsNext ==
    \/ CreateTabContainer
    \/ \E k \in DOMAIN tabs : ClickTab(tabs[k].tabId)
    \/ \E v \in ModelValues : ParentSetsModel(v)
    \/ DestroyTabContainer

TabsSpec == TabsInit /\ [][TabsNext]_vars

----------------------------------------------------------------------------
(* The sticky bar store, useActiveTab and YouTubeView *)

Views == 1..MaxViews

EmptySlot == [component |-> None, props |-> None, fullBleed |-> FALSE]

\* add() that keeps an occupant already installed
StickyAddIfEmpty(slot, component, props, fullBleed) ==
    IF slot.component # None THEN slot
    ELSE [component |-> Some(component), props |-> Some(props), fullBleed |-> fullBleed]

\* useStickyBarStore().add(component, props, fullBleed)
StickyAdd(slot, component, props, fullBleed) ==
    [component |-> Some(component), props |-> Some(props), fullBleed |-> fullBleed]

\* useStickyBarStore().clear()
StickyClear(slot) == EmptySlot

\* useActiveTab().setActiveTab(value)
SetActiveTab(value) == value

\* StickyBar: renders the occupant of the slot with its props, or nothing; an
\* occupant of the same component keeps its instance and gets the new props
StickyBar(slot, current) ==
    IF slot.component = None THEN None
    ELSE LET p == slot.props[1] IN
         IF current = None
         THEN Some(NewTabContainer(p.tabs, p.modelValue, p.onUpdate))
         ELSE Some(TabContainer(p.tabs, p.modelValue, p.onUpdate,
                                IF p.modelValue # current[1].modelValue
                                THEN OnModelValueChange(current[1].activeTab, p.modelValue)
                                ELSE current[1].activeTab))

\* the props object of onMounted: tabs, the value of activeTab at that moment,
\* and the listener that writes the shared ref
StickyProps(i) ==
    [ tabs |-> YouTubeTabs, modelValue |-> Some(sharedTab), onUpdate |-> ViewHandler(i) ]

StickyInit ==
    /\ views = [i \in Views |-> "none"]
    /\ sharedTab = ""
    /\ sticky = EmptySlot
    /\ claims = <<>>
    /\ TabsIdle
    /\ DrawerIdle
    /\ ChannelIdle
    /\ NormalizeIdle

\* <script setup> of YouTubeView: if (!activeTab.value) activeTab.value = tabs[0]!.tabId
Setup(i) ==
    /\ views[i] \in {"none", "unmounted"}
    /\ views' = [views EXCEPT ![i] = "setup"]
    /\ sharedTab' = IF sharedTab = "" THEN YouTubeTabs[1].tabId ELSE sharedTab
    /\ UNCHANGED <<sticky, claims, tabVars, drawerVars, channelVars, normVars>>

\* onMounted: sticky.add(TabContainer, {...}, true); the layout renders the slot
Mounted(i) ==
    /\ views[i] = "setup"
    /\ views' = [views EXCEPT ![i] = "mounted"]
    /\ LET slot == StickyAdd(sticky, "TabContainer", StickyProps(i), TRUE)
           bar == StickyBar(slot, tabContainer)
           out == IF tabContainer = None THEN <<>>
                  ELSE OnActiveTabChange(tabContainer[1].activeTab, bar[1].activeTab)
       IN /\ sticky' = slot
          /\ claims' = Append(claims, StickyProps(i))
          /\ tabContainer' = bar
          /\ emits' = out
          /\ sharedTab' = IF out = <<>> THEN sharedTab ELSE out[1]
    /\ UNCHANGED <<tabs, parentModel, drawerVars, channelVars, normVars>>

\* the user selects tab x in the sticky TabContainer; the activeTab watcher
\* emits and the listener of the props writes the shared ref
ClickStickyTab(x) ==
    /\ tabContainer # None
    /\ tabContainer[1].onUpdate # VModel
    /\ LET tc == tabContainer[1]
           out == OnActiveTabChange(tc.activeTab, x)
       IN /\ emits' = out
          /\ sharedTab' = IF out = <<>> THEN sharedTab ELSE out[1]
          /\ tabContainer' = Some(TabContainer(tc.tabs, tc.modelValue, tc.onUpdate, x))
    /\ UNCHANGED <<views, sticky, claims, tabs, parentModel, drawerVars, channelVars, normVars>>

\* a component below a live YouTubeView calls setActiveTab(v) with a declared
\* tab; the props of the sticky TabContainer are a snapshot and do not follow
WriteActiveTab(v) ==
    /\ \E i \in Views : views[i] \in {"setup", "mounted"}
    /\ sharedTab # v
    /\ sharedTab' = SetActiveTab(v)
    /\ emits' = <<>>
    /\ UNCHANGED <<views, sticky, claims, tabs, parentModel, tabContainer, drawerVars, channelVars, normVars>>

\* onUnmounted that clears the slot and leaves the shared ref as it is
UnmountedClearOnly(i) ==
    /\ views[i] = "mounted"
    /\ views' = [views EXCEPT ![i] = "unmounted"]
    /\ sticky' = StickyClear(sticky)
    /\ claims' = <<>>
    /\ tabContainer' = StickyBar(StickyClear(sticky), tabContainer)
    /\ emits' = <<>>
    /\ UNCHANGED <<sharedTab, tabs, parentModel, drawerVars, channelVars, normVars>>

\* onUnmounted: sticky.clear(); setActiveTab('')
Unmounted(i) ==
    /\ views[i] = "mounted"
    /\ views' = [views EXCEPT ![i] = "unmounted"]
    /\ sticky' = StickyClear(sticky)
    /\ claims' = <<>>
    /\ tabContainer' = StickyBar(StickyClear(sticky), tabContainer)
    /\ sharedTab' = SetActiveTab("")
    /\ emits' = <<>>
    /\ UNCHANGED <<tabs, parentModel, drawerVars, channelVars, normVars>>

StickyNext ==
    \/ \E i \in Views : Setup(i)
    \/ \E i \in Views : Mounted(i)
    \/ \E k \in DOMAIN YouTubeTabs : ClickStickyTab(YouTubeTabs[k].tabId)
    \/ \E i \in Views : Unmounted(i)
    \/ \E k \in DOMAIN YouTubeTabs : WriteActiveTab(YouTubeTabs[k].tabId)

StickySpec == StickyInit /\ [][StickyNext]_vars

----------------------------------------------------------------------------
(* The drawer *)

DrawerInit ==
    /\ \/ routes \in SortLists /\ messages = RouteMessages
       \/ routes \in RenderLists /\ messages \in Tables
    /\ drawerPhase = "setup"
    /\ drawerRoutes = <<>>
    /\ drawer = <<>>
    /\ TabsIdle
    /\ StickyIdle
    /\ ChannelIdle
    /\ NormalizeIdle

\* DrawerContent's setup: useDrawerRoutes(), and the first read of the computed
EvaluateDrawerRoutes ==
    /\ drawerPhase = "setup"
    /\ drawerRoutes' = DrawerRoutes(routes)
    /\ routes' = RoutesAfterProjection(routes)
    /\ drawerPhase' = "computed"
    /\ UNCHANGED <<messages, drawer, tabVars, stickyVars, channelVars, normVars>>

\* DrawerContent's template
RenderDrawer ==
    /\ drawerPhase = "computed"
    /\ drawer' = DrawerContent(drawerRoutes)
    /\ drawerPhase' = "rendered"
    /\ UNCHANGED <<routes, messages, drawerRoutes, tabVars, stickyVars, channelVars, normVars>>

\* a further evaluation of drawerRoutes: another caller of useDrawerRoutes()
\* reads its computed over the same exported array
ReevaluateDrawerRoutes ==
    /\ drawerPhase \in {"computed", "rendered"}
    /\ drawerRoutes' = DrawerRoutes(routes)
    /\ routes' = RoutesAfterProjection(routes)
    /\ drawer' = IF drawerPhase = "rendered" THEN DrawerContent(drawerRoutes') ELSE drawer
    /\ UNCHANGED <<messages, drawerPhase, tabVars, stickyVars, channelVars, normVars>>

DrawerNext == EvaluateDrawerRoutes \/ RenderDrawer \/ ReevaluateDrawerRoutes

DrawerSpec == DrawerInit /\ [][DrawerNext]_vars

----------------------------------------------------------------------------
(* A call of normalizeEmptyFields on each of the objects drawn *)

NormalizeInit ==
    /\ heap \in { <<object>> : object \in NormalizeObjects }
    /\ normArg = 1
    /\ normResult = 0
    /\ DrawerIdle
    /\ TabsIdle
    /\ StickyIdle
    /\ ChannelIdle

Normalize ==
    /\ normResult = 0
    /\ LET call == NormalizeEmptyFields(heap, normArg)
       IN /\ heap' = call.heap
          /\ normResult' = call.result
    /\ UNCHANGED <<normArg, drawerVars, tabVars, stickyVars, channelVars>>

NormalizeNext == Normalize

NormalizeSpec == NormalizeInit /\ [][NormalizeNext]_vars

----------------------------------------------------------------------------
(* The channels page: ChannelsTab with its ChannelDialog, ConfirmDialog and  *)
(* SnackbarGeneral, and the calls of the channel store that are in flight    *)

ChannelInit ==
    /\ ChannelIdle
    /\ DrawerIdle
    /\ TabsIdle
    /\ StickyIdle
    /\ NormalizeIdle

\* the table and the New button are behind the overlay of an open dialog
TableReachable == ~internalDialog /\ ~showConfirm

\* selectedChannel.value = val; formMode.value = mode, followed by the
\* modelValue watcher of ChannelDialog
SelectChannel(val, mode) ==
    /\ selectedChannel' = val
    /\ formMode' = mode
    /\ LET watched == ModelValueWatch(selectedChannel, val, form, internalDialog)
       IN /\ form' = watched.form
          /\ internalDialog' = watched.internalDialog
    /\ console' = <<>>
    /\ saved' = <<>>
    /\ rejected' = FALSE
    /\ storeCalls' = <<>>
    /\ UNCHANGED <<showSnackbar, snackbarMessage, showConfirm, confirmDialogMessage,
                   channelPendingDeletion, loading, requests,
                   drawerVars, tabVars, stickyVars, normVars>>

OnView(channel) ==
    /\ TableReachable
    /\ SelectChannel(Some(channel), "View")

OnCreate ==
    /\ TableReachable
    /\ SelectChannel(Some(NewChannel(FreshRef(selectedChannel))), "Create")

OnEdit(channel) ==
    /\ TableReachable
    /\ SelectChannel(Some(channel), "Edit")

OnDelete(channel) ==
    /\ TableReachable
    /\ channelPendingDeletion' = Some(channel)
    /\ confirmDialogMessage' = DeleteQuestion(channel)
    /\ showConfirm' = TRUE
    /\ console' = <<>>
    /\ saved' = <<>>
    /\ rejected' = FALSE
    /\ storeCalls' = <<>>
    /\ UNCHANGED <<selectedChannel, formMode, showSnackbar, snackbarMessage,
                   internalDialog, loading, form, requests,
                   drawerVars, tabVars, stickyVars, normVars>>

\* a text field of the dialog is given a value (v-model="form.<field>")
EditField(field, value) ==
    /\ internalDialog
    /\ ~IsReadonly(formMode)
    /\ form[field] # value
    /\ form' = [form EXCEPT ![field] = value]
    /\ console' = <<>>
    /\ saved' = <<>>
    /\ rejected' = FALSE
    /\ storeCalls' = <<>>
    /\ UNCHANGED <<selectedChannel, formMode, showSnackbar, snackbarMessage, showConfirm,
                   confirmDialogMessage, channelPendingDeletion, internalDialog, loading,
                   requests, drawerVars, tabVars, stickyVars, normVars>>

\* onSubmit, and saveChannel up to its await
OnSubmit ==
    /\ IF ~IsFormValid(form)
       THEN /\ rejected' = TRUE
            /\ storeCalls' = <<>>
            /\ UNCHANGED <<loading, requests>>
       ELSE /\ Len(requests) < MaxRequests
            /\ rejected' = FALSE
            /\ loading' = TRUE
            /\ requests' = Append(requests, SaveChannelCall(formMode, form))
            /\ storeCalls' = <<SaveChannelCall(formMode, form)>>
    /\ console' = <<>>
    /\ saved' = <<>>
    /\ UNCHANGED <<selectedChannel, formMode, showSnackbar, snackbarMessage, showConfirm,
                   confirmDialogMessage, channelPendingDeletion, internalDialog, form,
                   drawerVars, tabVars, stickyVars, normVars>>

\* a click on the save button, which is rendered unless the dialog is
\* readonly, disabled while the form is invalid and inert while loading
ClickSave ==
    /\ internalDialog
    /\ ~IsReadonly(formMode)
    /\ IsFormValid(form)
    /\ ~loading
    /\ OnSubmit

\* the submit event of the v-form
SubmitForm ==
    /\ internalDialog
    /\ OnSubmit

\* cancel without its emit: the dialog closes, the bound channel stays
CancelWithoutEmit ==
    /\ internalDialog
    /\ internalDialog' = FALSE
    /\ UNCHANGED <<selectedChannel, form>>
    /\ console' = <<>>
    /\ saved' = <<>>
    /\ rejected' = FALSE
    /\ storeCalls' = <<>>
    /\ UNCHANGED <<formMode, showSnackbar, snackbarMessage, showConfirm,
                   confirmDialogMessage, channelPendingDeletion, loading, requests,
                   drawerVars, tabVars, stickyVars, normVars>>

\* cancel: internalDialog.value = false; emit('update:modelValue', null), which
\* the v-model of ChannelsTab writes to selectedChannel
Cancel ==
    /\ internalDialog
    /\ selectedChannel' = None
    /\ LET watched == ModelValueWatch(selectedChannel, None, form, FALSE)
       IN /\ form' = watched.form
          /\ internalDialog' = watched.internalDialog
    /\ console' = <<>>
    /\ saved' = <<>>
    /\ rejected' = FALSE
    /\ storeCalls' = <<>>
    /\ UNCHANGED <<formMode, showSnackbar, snackbarMessage, showConfirm,
                   confirmDialogMessage, channelPendingDeletion, loading, requests,
                   drawerVars, tabVars, stickyVars, normVars>>

\* loading reset after a success only
SaveResolvesWithoutFinally(k, status) ==
    /\ k \in DOMAIN requests
    /\ requests[k].op \in {"create", "update"}
    /\ LET response == StoreResponse(requests[k], status)
           feedback == OnSaved(formMode, response, showSnackbar, snackbarMessage)
       IN /\ saved' = <<response>>
          /\ showSnackbar' = feedback.showSnackbar
          /\ snackbarMessage' = feedback.snackbarMessage
          /\ console' = feedback.console
    /\ rejected' = FALSE
    /\ internalDialog' = FALSE
    /\ loading' = (status \notin SuccessStatuses /\ loading)
    /\ requests' = RemoveAt(requests, k)
    /\ storeCalls' = <<>>
    /\ UNCHANGED <<selectedChannel, formMode, showConfirm, confirmDialogMessage,
                   channelPendingDeletion, form,
                   drawerVars, tabVars, stickyVars, normVars>>

\* saveChannel from its await on: the store call resolves, saved is emitted
\* and handled by onSaved, the dialog closes, finally loading is reset
SaveResolves(k, status) ==
    /\ k \in DOMAIN requests
    /\ requests[k].op \in {"create", "update"}
    /\ LET response == StoreResponse(requests[k], status)
           feedback == OnSaved(formMode, response, showSnackbar, snackbarMessage)
       IN /\ saved' = <<response>>
          /\ showSnackbar' = feedback.showSnackbar
          /\ snackbarMessage' = feedback.snackbarMessage
          /\ console' = feedback.console
    /\ rejected' = FALSE
    /\ internalDialog' = FALSE
    /\ loading' = FALSE
    /\ requests' = RemoveAt(requests, k)
    /\ storeCalls' = <<>>
    /\ UNCHANGED <<selectedChannel, formMode, showConfirm, confirmDialogMessage,
                   channelPendingDeletion, form,
                   drawerVars, tabVars, stickyVars, normVars>>

\* the confirm event of ConfirmDialog: deleteChannel up to its await
ConfirmDelete ==
    /\ showConfirm
    /\ IF channelPendingDeletion = None
       THEN /\ storeCalls' = <<>>
            /\ UNCHANGED requests
       ELSE /\ Len(requests) < MaxRequests
            /\ requests' = Append(requests,
                                  Request("remove", [id |-> channelPendingDeletion[1].id]))
            /\ storeCalls' = <<Request("remove", [id |-> channelPendingDeletion[1].id])>>
    /\ console' = <<>>
    /\ saved' = <<>>
    /\ rejected' = FALSE
    /\ UNCHANGED <<selectedChannel, formMode, showSnackbar, snackbarMessage, showConfirm,
                   confirmDialogMessage, channelPendingDeletion, internalDialog, loading,
                   form, drawerVars, tabVars, stickyVars, normVars>>

\* deleteChannel from its await on
RemoveResolves(k, status) ==
    /\ k \in DOMAIN requests
    /\ requests[k].op = "remove"
    /\ LET response == StoreResponse(requests[k], status)
           feedback == OnRemoved(response, showSnackbar, snackbarMessage)
       IN /\ showSnackbar' = feedback.showSnackbar
          /\ snackbarMessage' = feedback.snackbarMessage
          /\ console' = feedback.console
    /\ showConfirm' = FALSE
    /\ channelPendingDeletion' = None
    /\ confirmDialogMessage' = <<>>
    /\ requests' = RemoveAt(requests, k)
    /\ saved' = <<>>
    /\ rejected' = FALSE
    /\ storeCalls' = <<>>
    /\ UNCHANGED <<selectedChannel, formMode, internalDialog, loading, form,
                   drawerVars, tabVars, stickyVars, normVars>>

\* ConfirmDialog is dismissed: its v-model writes false to showConfirm
CloseConfirm ==
    /\ showConfirm
    /\ showConfirm' = FALSE
    /\ console' = <<>>
    /\ saved' = <<>>
    /\ rejected' = FALSE
    /\ storeCalls' = <<>>
    /\ UNCHANGED <<selectedChannel, formMode, showSnackbar, snackbarMessage,
                   confirmDialogMessage, channelPendingDeletion, internalDialog, loading, form,
                   requests,
                   drawerVars, tabVars, stickyVars, normVars>>

\* SnackbarGeneral closes: its v-model writes false to showSnackbar
CloseSnackbar ==
    /\ showSnackbar
    /\ showSnackbar' = FALSE
    /\ console' = <<>>
    /\ saved' = <<>>
    /\ rejected' = FALSE
    /\ storeCalls' = <<>>
    /\ UNCHANGED <<selectedChannel, formMode, snackbarMessage, showConfirm,
                   confirmDialogMessage, channelPendingDeletion, internalDialog, loading,
                   form, requests, drawerVars, tabVars, stickyVars, normVars>>

ChannelNext ==
    \/ \E channel \in ChannelRows : OnView(channel)
    \/ OnCreate
    \/ \E channel \in ChannelRows : OnEdit(channel)
    \/ \E channel \in ChannelRows : OnDelete(channel)
    \/ \E input \in FieldInputs : EditField(input[1], input[2])
    \/ ClickSave
    \/ SubmitForm
    \/ Cancel
    \/ \E k \in 1..MaxRequests, status \in Statuses : SaveResolves(k, status)
    \/ ConfirmDelete
    \/ \E k \in 1..MaxRequests, status \in Statuses : RemoveResolves(k, status)
    \/ CloseConfirm
    \/ CloseSnackbar

ChannelSpec == ChannelInit /\ [][ChannelNext]_vars

----------------------------------------------------------------------------
(* Properties of the drawer *)

Range(s) == { s[i] : i \in DOMAIN s }

\* position of a route in the source list (paths are unique in a list)
SourceIndex(r) == CHOOSE k \in DOMAIN routes : routes[k].path = r.path

ExplicitlyHidden(r) == r.meta # None /\ r.meta[1].showInDrawer = Some(FALSE)

OrderOrZero(r) ==
    IF r.meta = None \/ r.meta[1].order = None THEN 0 ELSE r.meta[1].order[1]

Projected == drawerPhase \in {"computed", "rendered"}

\* every v-list-item of the rendered drawer that carries a title: the
\* top-level items, the group headers and the sub-items
TitledEntries ==
    { [route |-> drawer[i].route, title |-> drawer[i].title] : i \in DOMAIN drawer }
    \cup UNION { { [route |-> drawer[i].items[j].route, title |-> drawer[i].items[j].title] :
                     j \in DOMAIN drawer[i].items } : i \in DOMAIN drawer }

\* C1: the projection holds exactly the top-level routes whose showInDrawer is
\* not explicitly false and whose name is not 'settings', each of them once
C1_ProjectionIsExactlyTheVisibleRoutes ==
    Projected =>
        /\ \A r \in Range(routes) :
              (r \in Range(drawerRoutes)) <=>
                  (~ExplicitlyHidden(r) /\ r.name # Some("settings"))
        /\ Range(drawerRoutes) \subseteq Range(routes)
        /\ Cardinality(Range(drawerRoutes)) = Len(drawerRoutes)

C1_Witness ==
    /\ Projected
    /\ \E r \in Range(drawerRoutes) : r.meta = None
    /\ \E r \in Range(routes) : ExplicitlyHidden(r) /\ r.name # Some("settings")
    /\ \E r \in Range(routes) : r.name = Some("settings") /\ ~ExplicitlyHidden(r)

\* C2: the projection is ascending by order (absent counted as 0), and routes
\* of equal order keep the relative order they have in the source list
C2_AscendingAndStable ==
    Projected =>
        \A i, j \in DOMAIN drawerRoutes :
            i < j =>
                /\ OrderOrZero(drawerRoutes[i]) <= OrderOrZero(drawerRoutes[j])
                /\ OrderOrZero(drawerRoutes[i]) = OrderOrZero(drawerRoutes[j])
                      => SourceIndex(drawerRoutes[i]) < SourceIndex(drawerRoutes[j])

\* three projected routes: a tie between an absent order and an explicit 0
\* that the sort kept in source order, and a larger order declared first
C2_Witness ==
    /\ Projected
    /\ Len(drawerRoutes) = 3
    /\ MetaField(drawerRoutes[1], "order") = None
    /\ MetaField(drawerRoutes[2], "order") = Some(0)
    /\ OrderOrZero(drawerRoutes[3]) = 1
    /\ SourceIndex(drawerRoutes[3]) = 1

\* C3: no route whose showInDrawer is explicitly false is rendered, neither as
\* a top-level entry nor as a sub-item of a group
C3_NoHiddenRouteRendered ==
    drawerPhase = "rendered" => \A e \in TitledEntries : ~ExplicitlyHidden(e.route)

\* C4: the scenario list renders as media (a group holding videos), then home
C4_Scenario ==
    (routes = ScenarioRoutes /\ drawerPhase = "rendered") =>
        /\ Len(drawer) = 2
        /\ drawer[1].route.name = Some("media")
        /\ drawer[1].kind = "group"
        /\ Len(drawer[1].items) = 1
        /\ drawer[1].items[1].route.name = Some("videos")
        /\ drawer[2].route.name = Some("home")
        /\ drawer[2].kind = "item"
        /\ \A e \in TitledEntries : e.route.name # Some("settings")

C4_Witness == routes = ScenarioRoutes /\ drawerPhase = "rendered"

HasKey(r) == r.meta # None /\ r.meta[1].i18nKey # None

Translation(key) == IF key \in DOMAIN messages THEN messages[key] ELSE key

C6_EmptyLabelWithoutKeyAndName ==
    drawerPhase = "rendered" =>
        \A e \in TitledEntries :
            (~HasKey(e.route) /\ e.route.name = None) => e.title = ""

\* C7 as stated: a route with children is a group without a target whose
\* sub-items go to parentPath/childPath; any other route is one item that goes
\* to its own path
C7_GroupsAndLeaves ==
    drawerPhase = "rendered" =>
        \A i \in DOMAIN drawer :
            LET r == drawer[i].route IN
            IF r.children # None /\ r.children[1] # <<>>
            THEN /\ drawer[i].kind = "group"
                 /\ drawer[i].to = None
                 /\ Len(drawer[i].items) = Len(r.children[1])
                 /\ \A j \in DOMAIN drawer[i].items :
                       drawer[i].items[j].to = r.path \o "/" \o r.children[1][j].path
            ELSE /\ drawer[i].kind = "item"
                 /\ drawer[i].items = <<>>
                 /\ drawer[i].to = Some(r.path)

\* C7 amended: under a parent whose path is the empty string a sub-item goes
\* to the child's path alone
C7_GroupsAndLeavesNonEmptyParent ==
    drawerPhase = "rendered" =>
        \A i \in DOMAIN drawer :
            LET r == drawer[i].route IN
            IF r.children # None /\ r.children[1] # <<>>
            THEN /\ drawer[i].kind = "group"
                 /\ drawer[i].to = None
                 /\ Len(drawer[i].items) = Len(r.children[1])
                 /\ \A j \in DOMAIN drawer[i].items :
                       drawer[i].items[j].to =
                           IF r.path = "" THEN r.children[1][j].path
                           ELSE r.path \o "/" \o r.children[1][j].path
            ELSE /\ drawer[i].kind = "item"
                 /\ drawer[i].items = <<>>
                 /\ drawer[i].to = Some(r.path)

\* a group with two sub-items next to a route whose children list is empty
C7_Witness ==
    /\ drawerPhase = "rendered"
    /\ \E i, k \in DOMAIN drawer :
          /\ drawer[i].kind = "group"
          /\ Len(drawer[i].items) = 2
          /\ drawer[i].route.path # ""
          /\ drawer[k].kind = "item"
          /\ drawer[k].route.children = Some(<<>>)

----------------------------------------------------------------------------
(* Properties of the sticky slot and of TabContainer *)

\* C8: the slot shows nothing when no claim followed the last clear, and
\* otherwise exactly the component and props of the latest claim
C8_LastClaimWins ==
    IF claims = <<>>
    THEN sticky.component = None /\ sticky.props = None /\ tabContainer = None
    ELSE LET last == claims[Len(claims)] IN
         /\ sticky.component = Some("TabContainer")
         /\ sticky.props = Some(last)
         /\ tabContainer # None
         /\ tabContainer[1].tabs = last.tabs
         /\ tabContainer[1].modelValue = last.modelValue
         /\ tabContainer[1].onUpdate = last.onUpdate

\* two claims without a clear between them, the second with other props
C8_Witness ==
    /\ Len(claims) = 2
    /\ claims[1].modelValue # claims[2].modelValue
    /\ claims[1].onUpdate # claims[2].onUpdate
    /\ sticky.props = Some(claims[2])

\* C9: the step that unmounts a mounted YouTubeView leaves the slot empty and
\* the shared active tab equal to the empty string
C9_UnmountResetsSlotAndTab ==
    [][ \A i \in Views :
          (views[i] = "mounted" /\ views'[i] = "unmounted") =>
              /\ sticky' = EmptySlot
              /\ tabContainer' = None
              /\ sharedTab' = "" ]_vars

\* a view unmounted, nothing mounted or set up after it
C9_Witness ==
    /\ \E i \in Views : views[i] = "unmounted"
    /\ \A i \in Views : views[i] \in {"none", "unmounted"}
    /\ sticky = EmptySlot
    /\ sharedTab = ""

\* C10: a TabContainer created without a modelValue, or with the empty one,
\* selects the first tab of a non-empty tabs list; created with a non-empty
\* modelValue it selects that value
C10_InitialSelection ==
    [][ (tabContainer = None /\ tabContainer' # None) =>
          LET tc == tabContainer'[1] IN
          IF tc.modelValue = None \/ tc.modelValue = Some("")
          THEN tc.tabs # <<>> => tc.activeTab = tc.tabs[1].tabId
          ELSE tc.activeTab = tc.modelValue[1] ]_vars

\* created with the empty modelValue over two tabs, untouched since
C10_Witness ==
    /\ tabContainer # None
    /\ tabContainer[1].modelValue = Some("")
    /\ parentModel = Some("")
    /\ Len(tabContainer[1].tabs) = 2
    /\ tabContainer[1].activeTab = tabContainer[1].tabs[1].tabId

C19_NormalizeEmptyFields ==
    [][ (normResult = 0 /\ normResult' # 0) =>
          LET input == heap[normArg]
              output == heap'[normResult']
          IN /\ normResult' # normArg
             /\ DOMAIN output = DOMAIN input
             /\ \A key \in DOMAIN input :
                   output[key] = IF input[key] = Str("") THEN Null ELSE input[key]
             /\ heap'[normArg] = input ]_vars

\* after a call on an object with an empty string, a name and a zero
C19_Witness ==
    /\ normResult # 0
    /\ LET input == heap[normArg]
           output == heap[normResult]
       IN /\ DOMAIN input = NormalizeKeys
          /\ input.id = Str("") /\ output.id = Null
          /\ input.name = Str("John") /\ output.name = Str("John")
          /\ input.description = Zero /\ output.description = Zero

\* the step shows a snackbar with the given message and logs nothing
ShowsSnackbar(message) ==
    /\ showSnackbar'
    /\ snackbarMessage' = message
    /\ console' = <<>>

\* the step leaves the snackbar as it was and logs one line to the console
ConsoleOnly ==
    /\ UNCHANGED <<showSnackbar, snackbarMessage>>
    /\ Len(console') = 1

\* C12: when the saved event of a save arrives with response r, the success
\* snackbar is shown exactly when the save was a create and r.status is 201 or
\* the save was an update and r.status is 200; with every other status the
\* snackbar is left alone and one line goes to the console
C12_FeedbackByOperation ==
    [][ \A k \in DOMAIN requests, status \in Statuses :
          SaveResolves(k, status) =>
              IF requests[k].op = "create"
              THEN IF status = Some(CREATED)
                   THEN ShowsSnackbar("channels.feedback.new") ELSE ConsoleOnly
              ELSE IF status = Some(SUCCESS)
                   THEN ShowsSnackbar("channels.feedback.edit") ELSE ConsoleOnly ]_vars

\* the same, for the responses that arrive while the page is in the mode of
\* the save they answer
C12_FeedbackByPageMode ==
    [][ \A k \in DOMAIN requests, status \in Statuses :
          (SaveResolves(k, status) /\ (requests[k].op = "create" <=> formMode = "Create")) =>
              IF requests[k].op = "create"
              THEN IF status = Some(CREATED)
                   THEN ShowsSnackbar("channels.feedback.new") ELSE ConsoleOnly
              ELSE IF status = Some(SUCCESS)
                   THEN ShowsSnackbar("channels.feedback.edit") ELSE ConsoleOnly ]_vars

\* a create answered with 201 after the page went on to edit a row: the answer
\* was judged as the answer to an edit
C12_CreateJudgedAsEdit ==
    /\ formMode = "Edit"
    /\ Len(saved) = 1
    /\ saved[1].status = Some(CREATED)
    /\ saved[1].data # None
    /\ saved[1].data[1].createdAt = Str("now")
    /\ console = << <<"Error editing channel, code: ", Some(CREATED)>> >>

\* C13: the step in which the remove call of deleteChannel resolves, with
\* whatever status, closes the confirm dialog and clears the pending channel
\* and the question; it shows the delete snackbar exactly when the status is
\* 204 and otherwise leaves the snackbar alone and logs to the console
C13_DeleteResolved ==
    [][ \A k \in DOMAIN requests, status \in Statuses :
          RemoveResolves(k, status) =>
              /\ showConfirm' = FALSE
              /\ channelPendingDeletion' = None
              /\ confirmDialogMessage' = <<>>
              /\ IF status = Some(DELETED)
                 THEN ShowsSnackbar("channels.feedback.delete")
                 ELSE ConsoleOnly ]_vars

\* a delete answered with status 500 after an earlier one answered 204:
\* the dialog is closed, the delete snackbar of the first is still shown and
\* the failure went to the console
C13_Witness ==
    /\ console = << <<"Error deleting channel, code: ", Some(500)>> >>
    /\ showConfirm = FALSE
    /\ channelPendingDeletion = None
    /\ confirmDialogMessage = <<>>
    /\ showSnackbar
    /\ snackbarMessage = "channels.feedback.delete"

C15_OpenIffModelValue ==
    /\ internalDialog <=> selectedChannel # None
    /\ (internalDialog /\ IsReadonly(formMode)) => form = FormOf(selectedChannel[1])

\* C16: every saved event carries the response of a create or update that
\* succeeded
C16_SavedOnlyOnSuccess ==
    \A i \in DOMAIN saved : saved[i].status \in {Some(SUCCESS), Some(CREATED)}

\* C17: an onSubmit that runs while the id or the name of the form is the
\* empty string issues no store call, emits neither saved nor
\* update:modelValue, and leaves the dialog open and the form as it was
C17_InvalidSubmitDoesNothing ==
    [][ ((SubmitForm \/ ClickSave) /\ (form.id = Str("") \/ form.name = Str(""))) =>
          /\ storeCalls' = <<>>
          /\ requests' = requests
          /\ saved' = <<>>
          /\ selectedChannel' = selectedChannel
          /\ internalDialog' /\ internalDialog
          /\ UNCHANGED <<form, loading, showSnackbar>> ]_vars

\* an onSubmit has just returned at its check, on a form with an id and an
\* empty name
C17_Witness ==
    /\ rejected
    /\ internalDialog
    /\ form.id = Str("UC1")
    /\ form.name = Str("")
    /\ storeCalls = <<>>
    /\ requests = <<>>

\* C18: cancel closes the dialog and writes null to the bound channel; it
\* issues no store call, leaves the awaited calls alone and emits no saved
C18_Cancel ==
    [][ Cancel =>
          /\ internalDialog' = FALSE
          /\ selectedChannel' = None
          /\ storeCalls' = <<>>
          /\ requests' = requests
          /\ saved' = <<>> ]_vars

\* a dialog opened by onCreate and cancelled while its save was awaited
C18_Witness ==
    /\ selectedChannel = None
    /\ internalDialog = FALSE
    /\ formMode = "Create"
    /\ Len(requests) = 1
    /\ requests[1].op = "create"
    /\ saved = <<>>
    /\ storeCalls = <<>>

\* a row was edited, the save was answered, and the same row was chosen for
\* editing again: the dialog stayed closed on a non-null channel
C15_ClosedOnSelectedRow ==
    /\ selectedChannel # None
    /\ selectedChannel[1].ref = "row1"
    /\ formMode = "Edit"
    /\ internalDialog = FALSE
    /\ saved = <<>>
    /\ requests = <<>>
    /\ showConfirm = FALSE

C22_SelectedIsSharedTab ==
    (tabContainer # None /\ \E i \in Views : views[i] = "mounted") =>
        tabContainer[1].activeTab = sharedTab

\* a view mounted after the unmount of the one before it, set up before that
\* unmount: its TabContainer selects the first tab, the shared value is empty
C22_SelectedWithoutSharedValue ==
    /\ \E i \in Views : views[i] = "mounted"
    /\ \A i \in Views : views[i] \in {"mounted", "unmounted"}
    /\ tabContainer # None
    /\ tabContainer[1].activeTab = YouTubeTabs[1].tabId
    /\ tabContainer[1].modelValue = Some("")
    /\ sharedTab = ""

\* C23: the feedback given for the response of a save submitted in Create or
\* in Edit mode is that of the mode it was submitted in, whatever the page's
\* formMode is when the response arrives: 201 for a create and 200 for an edit
\* show the snackbar of that operation, every other status logs its failure
C23_FeedbackOfSubmittedMode ==
    [][ \A k \in DOMAIN requests, status \in Statuses :
          (SaveResolves(k, status) /\ requests[k].mode \in {"Create", "Edit"}) =>
              LET expected == OnSaved(requests[k].mode, StoreResponse(requests[k], status),
                                      showSnackbar, snackbarMessage)
              IN /\ showSnackbar' = expected.showSnackbar
                 /\ snackbarMessage' = expected.snackbarMessage
                 /\ console' = expected.console ]_vars

\* C24: whenever a YouTubeView is mounted the slot holds the TabContainer a
\* mounted view registered, and whenever no view is mounted the slot is empty
C24_SlotFollowsMountedView ==
    /\ (\E i \in Views : views[i] = "mounted") =>
          /\ sticky.component = Some("TabContainer")
          /\ sticky.props # None
          /\ \E i \in Views :
                /\ views[i] = "mounted"
                /\ sticky.props[1].onUpdate = ViewHandler(i)
          /\ tabContainer # None
    /\ (\A i \in Views : views[i] # "mounted") => sticky = EmptySlot

\* the view that replaced another is mounted and the slot is empty: the
\* unmounted hook of the replaced view ran after the mounted hook of this one
C24_MountedOverEmptySlot ==
    /\ \E i, j \in Views :
          /\ views[i] = "mounted"
          /\ views[j] = "unmounted"
    /\ sticky = EmptySlot
    /\ tabContainer = None

\* C25: in every state in which a YouTubeView is mounted the shared active
\* tab is the tabId of a declared tab, and a view whose setup finds the
\* shared value empty sets it to the first tab
C25_SharedTabIsDeclared ==
    [][ /\ (\E i \in Views : views'[i] = "mounted") =>
              \E k \in DOMAIN YouTubeTabs : sharedTab' = YouTubeTabs[k].tabId
        /\ \A i \in Views :
              (views[i] # "setup" /\ views'[i] = "setup" /\ sharedTab = "") =>
                  sharedTab' = YouTubeTabs[1].tabId ]_vars

\* a view set up while its predecessor was mounted, and mounted after the
\* predecessor's unmount reset the shared value
C25_MountedOnEmptySharedTab ==
    /\ \E i, j \in Views :
          /\ views[i] = "mounted"
          /\ views[j] = "unmounted"
    /\ sharedTab = ""
    /\ sticky.props # None
    /\ sticky.props[1].modelValue = Some("")

\* C26: no create or update call of the store is issued while the mode of the
\* dialog is 'View'
C26_NoSaveInViewMode ==
    \A i \in DOMAIN storeCalls :
        storeCalls[i].op \in {"create", "update"} => storeCalls[i].mode # "View"

\* a submit event on the form of a dialog opened by onView: create is awaited
\* with the viewed channel as its payload
C26_CreateIssuedInViewMode ==
    /\ formMode = "View"
    /\ internalDialog
    /\ loading
    /\ Len(storeCalls) = 1
    /\ storeCalls[1].op = "create"
    /\ storeCalls[1].arg.id = Str("UC1")
    /\ requests = storeCalls

====
